---- MODULE Spec2Model ----
(***************************************************************************)
(* Model of the Sales Intelligence API: the POST /api/v1/analyze handler   *)
(* of src/main.py (analyze_company, generate_sales_intelligence) and the   *)
(* model-call adapter of src/services/ai_service.py                        *)
(* (SalesIntelligenceGenerator.generate_report).                           *)
(*                                                                         *)
(* Text is a sequence of one-character strings.  The hosted model is a     *)
(* black box: the text it is going to stream is chosen in Init and the     *)
(* way the text is cut into chunks is chosen when each chunk arrives.      *)
(***************************************************************************)
EXTENDS Integers, Sequences, FiniteSets, TLC

(* ------------------------------ bounds --------------------------------- *)
\* longest run of whitespace the streamed text has around its parts
MaxPad == 1
\* most chunks one stream delivers
MaxChunks == 3

(* --------------------------- characters -------------------------------- *)
\* BT stands for the backtick, which a TLA+ string literal cannot hold
BT == "~"
NL == "\n"
SP == " "
DQ == "\""

\* str.strip() with no argument removes whitespace; of the characters the
\* streamed texts are made of, these are whitespace
IsSpace(c) == c \in {NL, SP}

\* the literals of the prefix and suffix tests: three backticks followed by
\* json, and three backticks
FenceJson == <<BT, BT, BT, "j", "s", "o", "n">>
Fence == <<BT, BT, BT>>

(* ------------------------ str operations ------------------------------- *)
\* s[i:] for 0 <= i (Python slicing never raises; past the end it is "")
From(s, i) == IF i >= Len(s) THEN <<>> ELSE SubSeq(s, i + 1, Len(s))

\* s[:n] for 0 <= n
Take(s, n) == IF n >= Len(s) THEN s ELSE SubSeq(s, 1, n)

\* s[:-n] for n > 0
DropLast(s, n) == IF n >= Len(s) THEN <<>> ELSE SubSeq(s, 1, Len(s) - n)

StartsWith(s, p) == Len(s) >= Len(p) /\ SubSeq(s, 1, Len(p)) = p

EndsWith(s, p) == Len(s) >= Len(p) /\ SubSeq(s, Len(s) - Len(p) + 1, Len(s)) = p

RECURSIVE LStrip(_)
LStrip(s) == IF s # <<>> /\ IsSpace(Head(s)) THEN LStrip(Tail(s)) ELSE s

RECURSIVE RStrip(_)
RStrip(s) == IF s # <<>> /\ IsSpace(s[Len(s)]) THEN RStrip(SubSeq(s, 1, Len(s) - 1)) ELSE s

Strip(s) == RStrip(LStrip(s))

(* --------------------------- json.loads -------------------------------- *)
(* The decoder on the characters the texts are made of.  A value is         *)
(* [t |-> "int", v |-> n], [t |-> "str", v |-> s], [t |-> "list", v |-> q]  *)
(* or [t |-> "dict", v |-> f] with f a function from keys to values; null   *)
(* is [t |-> "NoneType", v |-> "None"] and true is [t |-> "bool", v |-> TRUE]. *)
(* A scan result is [ok |-> TRUE, val |-> v, end |-> i] (i the 0-based      *)
(* index after the value) or [ok |-> FALSE, msg |-> m, pos |-> i].          *)

IsJsonSpace(c) == c \in {NL, SP}

Fail(m, i) == [ok |-> FALSE, msg |-> m, pos |-> i]

\* the character at 0-based index i, "" past the end
At(s, i) == IF i < Len(s) THEN s[i + 1] ELSE ""

RECURSIVE SkipSpace(_, _)
SkipSpace(s, i) == IF i < Len(s) /\ IsJsonSpace(s[i + 1]) THEN SkipSpace(s, i + 1) ELSE i

\* py_scanstring: s[i-1] is the opening quote, begin = i - 1
RECURSIVE ScanString(_, _, _, _)
ScanString(s, i, begin, acc) ==
  IF i >= Len(s) THEN Fail("Unterminated string starting at", begin)
  ELSE IF s[i + 1] = DQ THEN [ok |-> TRUE, val |-> acc, end |-> i + 1]
  ELSE IF s[i + 1] = NL THEN Fail("Invalid control character at", i)
  ELSE ScanString(s, i + 1, begin, Append(acc, s[i + 1]))

\* the integer literal starting at i: the digits the texts have are all "1"
RECURSIVE ScanDigits(_, _, _)
ScanDigits(s, i, acc) ==
  IF At(s, i) = "1" THEN ScanDigits(s, i + 1, acc * 10 + 1)
  ELSE [ok |-> TRUE, val |-> [t |-> "int", v |-> acc], end |-> i]

\* dict(pairs): a later pair of the same key replaces the earlier one
PutKey(f, k, v) == [x \in (DOMAIN f) \cup {k} |-> IF x = k THEN v ELSE f[x]]

EmptyDict == [x \in {} |-> 0]

RECURSIVE ScanOnce(_, _)
RECURSIVE ScanObject(_, _, _)
RECURSIVE ScanArray(_, _, _)

\* JSONObject after the first key's opening quote position is known:
\* i is the index of a '"' that opens a key, f the pairs read so far
ScanObject(s, i, f) ==
  LET k == ScanString(s, i + 1, i, <<>>) IN
  IF ~k.ok THEN k
  ELSE LET c == SkipSpace(s, k.end) IN
    IF At(s, c) # ":" THEN Fail("Expecting ':' delimiter", c)
    ELSE LET v == ScanOnce(s, SkipSpace(s, c + 1)) IN
      IF ~v.ok THEN v
      ELSE LET g == PutKey(f, k.val, v.val)
               e == SkipSpace(s, v.end) IN
        IF At(s, e) = "}" THEN [ok |-> TRUE, val |-> [t |-> "dict", v |-> g], end |-> e + 1]
        ELSE IF At(s, e) # "," THEN Fail("Expecting ',' delimiter", e)
        ELSE LET n == SkipSpace(s, e + 1) IN
          IF At(s, n) # DQ
          THEN Fail("Expecting property name enclosed in double quotes", n)
          ELSE ScanObject(s, n, g)

\* JSONArray: i is the index where the next element starts, q the elements so far
ScanArray(s, i, q) ==
  LET v == ScanOnce(s, i) IN
  IF ~v.ok THEN v
  ELSE LET e == SkipSpace(s, v.end) IN
    IF At(s, e) = "]" THEN [ok |-> TRUE, val |-> [t |-> "list", v |-> Append(q, v.val)], end |-> e + 1]
    ELSE IF At(s, e) # "," THEN Fail("Expecting ',' delimiter", e)
    ELSE ScanArray(s, SkipSpace(s, e + 1), Append(q, v.val))

\* scan_once: the value that starts exactly at index i
ScanOnce(s, i) ==
  LET c == At(s, i) IN
  IF c = DQ THEN
    LET r == ScanString(s, i + 1, i, <<>>) IN
    IF r.ok THEN [ok |-> TRUE, val |-> [t |-> "str", v |-> r.val], end |-> r.end] ELSE r
  ELSE IF c = "{" THEN
    LET n == SkipSpace(s, i + 1) IN
    IF At(s, n) = "}" THEN [ok |-> TRUE, val |-> [t |-> "dict", v |-> EmptyDict], end |-> n + 1]
    ELSE IF At(s, n) # DQ
    THEN Fail("Expecting property name enclosed in double quotes", n)
    ELSE ScanObject(s, n, EmptyDict)
  ELSE IF c = "[" THEN
    LET n == SkipSpace(s, i + 1) IN
    IF At(s, n) = "]" THEN [ok |-> TRUE, val |-> [t |-> "list", v |-> <<>>], end |-> n + 1]
    ELSE ScanArray(s, n, <<>>)
  ELSE IF c = "n" /\ i + 4 <= Len(s) /\ SubSeq(s, i + 1, i + 4) = <<"n", "u", "l", "l">>
  THEN [ok |-> TRUE, val |-> [t |-> "NoneType", v |-> "None"], end |-> i + 4]
  ELSE IF c = "t" /\ i + 4 <= Len(s) /\ SubSeq(s, i + 1, i + 4) = <<"t", "r", "u", "e">>
  THEN [ok |-> TRUE, val |-> [t |-> "bool", v |-> TRUE], end |-> i + 4]
  ELSE IF c = "1" THEN ScanDigits(s, i, 0)
  ELSE Fail("Expecting value", i)

\* json.loads(s): JSONDecoder.decode skips leading whitespace, scans one
\* value, skips trailing whitespace and rejects anything left over
JsonLoads(s) ==
  LET r == ScanOnce(s, SkipSpace(s, 0)) IN
  IF ~r.ok THEN r
  ELSE LET e == SkipSpace(s, r.end) IN
    IF e # Len(s) THEN Fail("Extra data", e) ELSE r

(* ------------------- cleaning the collected response ------------------- *)
\* variant: the generic marker is tested first, so three characters are
\* removed from a response that opens with the json marker
RemovePrefix_GenericFirst(s) ==
  IF StartsWith(s, Fence) THEN From(s, 3)
  ELSE IF StartsWith(s, FenceJson) THEN From(s, 7)
  ELSE s

\* variant: the elif for the generic marker is missing
RemovePrefix_JsonOnly(s) == IF StartsWith(s, FenceJson) THEN From(s, 7) ELSE s

\* variant: the json marker is removed wherever it first occurs
RemovePrefix_Anywhere(s) ==
  LET I == {i \in 0..(Len(s) - 7) : SubSeq(s, i + 1, i + 7) = FenceJson} IN
  IF I # {} THEN From(s, (CHOOSE i \in I : \A k \in I : i <= k) + 7)
  ELSE IF StartsWith(s, Fence) THEN From(s, 3)
  ELSE s

\* variant: a marker is removed only from a response that also ends with a
\* fence
RemovePrefix_NeedsClose(s) ==
  IF ~EndsWith(s, Fence) THEN s
  ELSE IF StartsWith(s, FenceJson) THEN From(s, 7)
  ELSE IF StartsWith(s, Fence) THEN From(s, 3)
  ELSE s

\* the if / elif that removes the opening marker
RemovePrefix(s) ==
  IF StartsWith(s, FenceJson) THEN From(s, 7)
  ELSE IF StartsWith(s, Fence) THEN From(s, 3)
  ELSE s

\* variant: the last three characters are removed without the endswith test
RemoveSuffix_Always(s) == DropLast(s, 3)

\* variant: the closing marker is left in place
RemoveSuffix_Never(s) == s

\* the if that removes the closing marker
RemoveSuffix(s) == IF EndsWith(s, Fence) THEN DropLast(s, 3) ELSE s

\* cleaned_response as json.loads receives it
CleanResponse(full) == Strip(RemoveSuffix(RemovePrefix(Strip(full))))

\* str(JSONDecodeError): msg, then line and column of pos in doc, then pos
RECURSIVE CountNL(_)
CountNL(s) == IF s = <<>> THEN 0 ELSE (IF Head(s) = NL THEN 1 ELSE 0) + CountNL(Tail(s))

RECURSIVE LastNL(_)
\* doc.rindex("\n", 0, pos) as a 1-based position, 0 when there is none
LastNL(s) == IF s = <<>> THEN 0 ELSE IF s[Len(s)] = NL THEN Len(s) ELSE LastNL(SubSeq(s, 1, Len(s) - 1))

DecodeErrorStr(doc, e) ==
  LET before == Take(doc, e.pos)
      lineno == CountNL(before) + 1
      colno == IF CountNL(before) = 0 THEN e.pos + 1 ELSE e.pos - (LastNL(before) - 1)
  IN <<e.msg, ": line ", ToString(lineno), " column ", ToString(colno),
       " (char ", ToString(e.pos), ")">>

(* ----------------------- what the environment sends --------------------- *)
\* runs of newlines, up to MaxPad of them
Pads == {[i \in 1..n |-> NL] : n \in 0..MaxPad}

\* JSON documents
JsonTexts ==
  { <<"{", DQ, "a", DQ, ":", "1", "}">>,
    <<"{", "}">>,
    <<"1">>,
    <<"[", "1", "]">>,
    <<"n", "u", "l", "l">>,
    <<"t", "r", "u", "e">>,
    <<DQ, BT, BT, BT, DQ>> }

\* texts that are not JSON documents
BadTexts ==
  { <<>>,
    <<"n", "o", "t", SP, "j", "s", "o", "n">>,
    <<"{", DQ, "a", DQ, ":", "1">>,
    <<"j", "s", "o", "n">> }

\* texts the hosted model may stream: optional prose, an optional opening
\* marker, a body, an optional closing marker, optional prose, with
\* whitespace between the parts and around the whole
ModelTexts ==
  { outer \o lead \o open \o pad \o body \o pad \o close \o trail \o outer :
      outer \in Pads, lead \in {<<>>, <<"x">>}, open \in {<<>>, FenceJson, Fence},
      pad \in Pads, body \in JsonTexts \cup BadTexts,
      close \in {<<>>, Fence}, trail \in {<<>>, <<"x">>} }

\* request bodies.  company_name is absent ("") or a name; the URL fields
\* are absent (<<>>) or a text: the scheme with its "://" as one element,
\* then one character per element
Names == {"", "Futran Solutions"}
Urls ==
  { <<>>,
    <<"n", "o", "t", SP, "u", "r", "l">>,
    <<"https://", "a", ".", "c", "o", "/">>,
    <<"https://", "A", ".", "c", "o">> }
LinkedinUrls ==
  { <<>>,
    <<"n", "o", "t", SP, "u", "r", "l">>,
    <<"https://", "L", ".", "i", "n", "/", "C">> }

\* pydantic HttpUrl accepts a text that has an http or https scheme followed
\* by a host
IsHttpUrl(u) ==
  /\ Len(u) >= 2
  /\ u[1] \in {"http://", "https://"}
  /\ u[2] \notin {"/", SP}
  /\ \A i \in 1..Len(u) : u[i] # SP

\* str.lower() on the characters the URL texts are made of
Lower(c) == IF c = "A" THEN "a" ELSE IF c = "L" THEN "l" ELSE IF c = "C" THEN "c" ELSE c

\* variant: the text is kept as it was submitted
HttpUrlStr_AsSubmitted(u) == u

\* str(HttpUrl): the URL in pydantic's normal form, the host in lower case
\* and "/" as the path when the text has none (the model's Config uses
\* json_schema_extra, the pydantic 2 name)
HttpUrlStr(u) ==
  LET rest == Tail(u)
      S == {i \in 1..Len(rest) : rest[i] = "/"}
      cut == IF S = {} THEN Len(rest) + 1 ELSE CHOOSE i \in S : \A k \in S : i <= k
      host == SubSeq(rest, 1, cut - 1)
      path == SubSeq(rest, cut, Len(rest))
  IN <<u[1]>> \o [i \in 1..Len(host) |-> Lower(host[i])]
       \o (IF path = <<>> THEN <<"/">> ELSE path)

RequestBodies ==
  [company_name : Names, company_website : Urls, company_linkedin : LinkedinUrls]

\* variant: company_website is not checked
ValidRequest_NoWebsite(b) ==
  /\ b.company_name # ""
  /\ b.company_linkedin # <<>> => IsHttpUrl(b.company_linkedin)

\* CompanyAnalysisRequest: company_name and company_website are required
\* (Field(...)), company_linkedin is Optional[HttpUrl] = None
ValidRequest(b) ==
  /\ b.company_name # ""
  /\ b.company_website # <<>> /\ IsHttpUrl(b.company_website)
  /\ b.company_linkedin # <<>> => IsHttpUrl(b.company_linkedin)

\* text1, the f-string of generate_sales_intelligence: the literal parts are
\* one element each, the interpolated URL texts keep their elements;
\* company_linkedin is <<>> for None
UserPrompt(company_name, company_website, company_linkedin) ==
  LET linkedin_text == IF company_linkedin # <<>>
                       THEN <<"\nCompany LinkedIn: ">> \o company_linkedin ELSE <<>>
  IN <<"Analyze ">> \o company_website
       \o <<" and generate the sales intelligence report.\n\nCompany Name: ", company_name>>
       \o linkedin_text
       \o <<"\nAnalysis Date: ", "current_date",
            "\n\nReturn valid JSON only - no markdown or code blocks.">>

(* ------------- SalesIntelligenceGenerator construction ------------------ *)
None == "None"

\* bool(x) of an Optional[str]: None and "" are false
Truthy(x) == x \notin {None, ""}

\* the arguments __init__ may be given and the values the two environment
\* variables may have (None: not given, not set)
ArgProjects == {None, "", "arg-project"}
ArgLocations == {None, "", "us-central1"}
EnvProjects == {None, "", "env-project"}
EnvLocations == {None, "", "europe-west1"}

Environs == [GOOGLE_CLOUD_PROJECT : EnvProjects, VERTEX_AI_LOCATION : EnvLocations]
InitArgs == [project_id : ArgProjects, location : ArgLocations]

\* os.environ.get(key, default)
EnvironGet(env, key, default) == IF env[key] = None THEN default ELSE env[key]

\* variant: the environment variable wins over the argument
ResolveProjectId_EnvFirst(project_id, env) ==
  IF Truthy(EnvironGet(env, "GOOGLE_CLOUD_PROJECT", None))
  THEN EnvironGet(env, "GOOGLE_CLOUD_PROJECT", None) ELSE project_id

\* project_id or os.environ.get("GOOGLE_CLOUD_PROJECT")
ResolveProjectId(project_id, env) ==
  IF Truthy(project_id) THEN project_id ELSE EnvironGet(env, "GOOGLE_CLOUD_PROJECT", None)

\* location or os.environ.get("VERTEX_AI_LOCATION", "global")
ResolveLocation(location, env) ==
  IF Truthy(location) THEN location ELSE EnvironGet(env, "VERTEX_AI_LOCATION", "global")

DefaultModel == "gemini-2.5-flash-preview-09-2025"

NoClient == [vertexai |-> FALSE, project |-> None, location |-> None]

\* no generator: the constructor has not returned one
NoGenerator == [project_id |-> None, location |-> None, model |-> None, client |-> NoClient]

NoArgs == [project_id |-> None, location |-> None]

\* the environment of a deployed service: the project is set, the location
\* is left to the default
DeployedEnviron == [GOOGLE_CLOUD_PROJECT |-> "env-project", VERTEX_AI_LOCATION |-> None]

(* ------------------------------- state --------------------------------- *)
Reqs == {"r1", "r2"}

VARIABLES
  entry,          \* per request: "analyze_company", "generate_report" or "none"
  body,           \* per request: the JSON body posted
  pc,             \* per request: where its handling stands
  model_text,     \* per request: the whole text the hosted model streams
  prompt,         \* per request: the user prompt handed to the stream call
  stream,         \* per request: the text the hosted model has still to send
  delivered,      \* per request: chunks the stream has yielded so far
  full_response,  \* per request: the accumulated text (response_text)
  result,         \* per request: what the adapter returned
  exc,            \* per request: the exception that is propagating
  response,       \* per request: the HTTP response sent
  clients,        \* per request: genai.Client objects created for it
  stream_calls,   \* per request: generate_content_stream calls made
  parse_calls,    \* per request: json.loads calls made
  failed_file,    \* /tmp/failed_response.txt: <<written?, content>>
  loop,           \* the request the event loop is running, or "free"
  environ,        \* os.environ: GOOGLE_CLOUD_PROJECT and VERTEX_AI_LOCATION
  init_args,      \* per request: the arguments SalesIntelligenceGenerator is built with
  generator       \* per request: the generator object its caller holds

\* the state of SalesIntelligenceGenerator construction
gen_vars == <<environ, init_args, generator>>

vars == <<entry, body, model_text, prompt, pc, stream, delivered, full_response, result, exc,
          response, clients, stream_calls, parse_calls, failed_file, loop, environ, init_args,
          generator>>

NoResult == [kind |-> "none", v |-> <<>>]
NoExc == [type |-> "none", str |-> <<>>]
NoResponse == [status |-> 0]
NoBody == [company_name |-> "", company_website |-> <<>>, company_linkedin |-> <<>>]

\* one request, r1, arrives: a POST /api/v1/analyze with any body, or a
\* call of generate_report; the hosted model will stream any of ModelTexts
Init ==
  /\ \E e \in {"analyze_company", "generate_report"} :
       /\ entry = [r \in Reqs |-> IF r = "r1" THEN e ELSE "none"]
       /\ \E b \in (IF e = "analyze_company" THEN RequestBodies ELSE {NoBody}) :
            body = [r \in Reqs |-> IF r = "r1" THEN b ELSE NoBody]
       /\ pc = [r \in Reqs |-> IF r # "r1" THEN "idle"
                               ELSE IF e = "analyze_company" THEN "received" ELSE "constructing"]
  /\ \E t \in ModelTexts :
       /\ model_text = [r \in Reqs |-> IF r = "r1" THEN t ELSE <<>>]
       /\ stream = model_text
  /\ prompt = [r \in Reqs |-> <<>>]
  /\ delivered = [r \in Reqs |-> 0]
  /\ full_response = [r \in Reqs |-> <<>>]
  /\ result = [r \in Reqs |-> NoResult]
  /\ exc = [r \in Reqs |-> NoExc]
  /\ response = [r \in Reqs |-> NoResponse]
  /\ clients = [r \in Reqs |-> 0]
  /\ stream_calls = [r \in Reqs |-> 0]
  /\ parse_calls = [r \in Reqs |-> 0]
  /\ failed_file = <<FALSE, <<>>>>
  /\ loop = "free"
  /\ environ = DeployedEnviron
  /\ init_args = [r \in Reqs |-> NoArgs]
  /\ generator = [r \in Reqs |-> NoGenerator]

\* texts streamed when two requests are in the process at once
ConcTexts ==
  { <<"{", DQ, "a", DQ, ":", "1", "}">>,
    <<"{", "}">>,
    <<"n", "o", "t", SP, "j", "s", "o", "n">>,
    <<"x">>,
    FenceJson \o <<"[", "1", "]">> \o Fence }

\* two requests for different companies are in the process at once, each a
\* POST /api/v1/analyze with a valid body or a call of generate_report
\* the texts of the liveness runs: the concurrent ones and the empty output
FairTexts == ConcTexts \cup {<<>>}

\* Init with the model's output drawn from FairTexts
InitFair ==
  /\ \E e \in {"analyze_company", "generate_report"} :
       /\ entry = [r \in Reqs |-> IF r = "r1" THEN e ELSE "none"]
       /\ \E b \in (IF e = "analyze_company" THEN RequestBodies ELSE {NoBody}) :
            body = [r \in Reqs |-> IF r = "r1" THEN b ELSE NoBody]
       /\ pc = [r \in Reqs |-> IF r # "r1" THEN "idle"
                               ELSE IF e = "analyze_company" THEN "received" ELSE "constructing"]
  /\ \E t \in FairTexts :
       /\ model_text = [r \in Reqs |-> IF r = "r1" THEN t ELSE <<>>]
       /\ stream = model_text
  /\ prompt = [r \in Reqs |-> <<>>]
  /\ delivered = [r \in Reqs |-> 0]
  /\ full_response = [r \in Reqs |-> <<>>]
  /\ result = [r \in Reqs |-> NoResult]
  /\ exc = [r \in Reqs |-> NoExc]
  /\ response = [r \in Reqs |-> NoResponse]
  /\ clients = [r \in Reqs |-> 0]
  /\ stream_calls = [r \in Reqs |-> 0]
  /\ parse_calls = [r \in Reqs |-> 0]
  /\ failed_file = <<FALSE, <<>>>>
  /\ loop = "free"
  /\ environ = DeployedEnviron
  /\ init_args = [r \in Reqs |-> NoArgs]
  /\ generator = [r \in Reqs |-> NoGenerator]

InitConc ==
  /\ entry \in [Reqs -> {"analyze_company", "generate_report"}]
  /\ body = [r \in Reqs |->
       IF entry[r] = "generate_report" THEN NoBody
       ELSE [company_name |-> "Futran Solutions",
             company_website |-> IF r = "r1" THEN <<"https://", "a", ".", "c", "o", "/">>
                                 ELSE <<"https://", "A", ".", "c", "o">>,
             company_linkedin |-> <<>>]]
  /\ pc = [r \in Reqs |-> IF entry[r] = "analyze_company" THEN "received" ELSE "constructing"]
  /\ model_text \in [Reqs -> ConcTexts]
  /\ stream = model_text
  /\ prompt = [r \in Reqs |-> <<>>]
  /\ delivered = [r \in Reqs |-> 0]
  /\ full_response = [r \in Reqs |-> <<>>]
  /\ result = [r \in Reqs |-> NoResult]
  /\ exc = [r \in Reqs |-> NoExc]
  /\ response = [r \in Reqs |-> NoResponse]
  /\ clients = [r \in Reqs |-> 0]
  /\ stream_calls = [r \in Reqs |-> 0]
  /\ parse_calls = [r \in Reqs |-> 0]
  /\ failed_file = <<FALSE, <<>>>>
  /\ loop = "free"
  /\ environ = DeployedEnviron
  /\ init_args = [r \in Reqs |-> NoArgs]
  /\ generator = [r \in Reqs |-> NoGenerator]

(* ------------------------------ the stream ------------------------------ *)
\* the chunks the stream may yield next when `rest` is still to be sent: a
\* chunk without candidates, without content, without parts, without text,
\* or one carrying the next k characters
NextChunks(rest) ==
  { [candidates |-> FALSE, content |-> FALSE, parts |-> FALSE, text |-> <<>>],
    [candidates |-> TRUE, content |-> FALSE, parts |-> FALSE, text |-> <<>>],
    [candidates |-> TRUE, content |-> TRUE, parts |-> FALSE, text |-> <<>>],
    [candidates |-> TRUE, content |-> TRUE, parts |-> TRUE, text |-> <<>>] }
  \cup { [candidates |-> TRUE, content |-> TRUE, parts |-> TRUE, text |-> Take(rest, k)] :
           k \in 1..Len(rest) }

\* the stream can yield chunk c as its next chunk and still finish within
\* MaxChunks chunks
CanYield(r, c) ==
  /\ delivered[r] < MaxChunks
  /\ c \in NextChunks(stream[r])
  /\ \/ delivered[r] + 1 < MaxChunks
     \/ Len(c.text) = Len(stream[r])

\* variant: the new text is put in front of what was collected
CollectChunk_Prepend(full, chunk) ==
  IF ~chunk.candidates THEN full
  ELSE IF ~chunk.content \/ ~chunk.parts THEN full
  ELSE IF chunk.text # <<>> THEN chunk.text \o full
  ELSE full

\* body of the for loop of generate_sales_intelligence
CollectChunk(full, chunk) ==
  IF ~chunk.candidates THEN full
  ELSE IF ~chunk.content \/ ~chunk.parts THEN full
  ELSE IF chunk.text # <<>> THEN full \o chunk.text
  ELSE full

\* body of the for loop of generate_report
ReportCollectChunk(text, chunk) ==
  IF ~chunk.candidates \/ ~chunk.content \/ ~chunk.parts THEN text
  ELSE IF chunk.text # <<>> THEN text \o chunk.text
  ELSE text

(* ----------------------- POST /api/v1/analyze --------------------------- *)
PyException(s) == [type |-> "Exception", str |-> s]

\* FastAPI validates the body against CompanyAnalysisRequest before it
\* calls the endpoint function; a body that fails gets 422
Validate(r) ==
  /\ pc[r] = "received" /\ loop = "free"
  /\ IF ValidRequest(body[r])
     THEN /\ pc' = [pc EXCEPT ![r] = "validated"]
          /\ UNCHANGED response
     ELSE /\ pc' = [pc EXCEPT ![r] = "rejected"]
          /\ response' = [response EXCEPT ![r] =
               [status |-> 422, detail |-> <<"validation error">>]]
  /\ UNCHANGED <<entry, body, model_text, prompt, stream, delivered, full_response, result, exc,
                 clients, stream_calls, parse_calls, failed_file, loop>>
  /\ UNCHANGED gen_vars

\* variant: the buffer is one object shared by the requests and is not
\* emptied when a call starts
OpenStream_SharedBuffer(r) ==
  /\ pc[r] = "validated" /\ loop = "free"
  /\ loop' = r
  /\ clients' = [clients EXCEPT ![r] = @ + 1]
  /\ stream_calls' = [stream_calls EXCEPT ![r] = @ + 1]
  /\ prompt' = [prompt EXCEPT ![r] =
       UserPrompt(body[r].company_name, HttpUrlStr(body[r].company_website),
                  IF body[r].company_linkedin # <<>>
                  THEN HttpUrlStr(body[r].company_linkedin) ELSE <<>>)]
  /\ full_response' = [full_response EXCEPT ![r] =
       full_response[CHOOSE q \in Reqs : q # r]]
  /\ pc' = [pc EXCEPT ![r] = "streaming"]
  /\ UNCHANGED <<entry, body, model_text, stream, delivered, result, exc, response,
                 parse_calls, failed_file>>
  /\ UNCHANGED gen_vars

\* analyze_company calls generate_sales_intelligence, which creates the
\* client, builds the prompt and the configuration and opens the stream
OpenStream(r) ==
  /\ pc[r] = "validated" /\ loop = "free"
  /\ loop' = r
  /\ clients' = [clients EXCEPT ![r] = @ + 1]
  /\ stream_calls' = [stream_calls EXCEPT ![r] = @ + 1]
  /\ prompt' = [prompt EXCEPT ![r] =
       UserPrompt(body[r].company_name, HttpUrlStr(body[r].company_website),
                  IF body[r].company_linkedin # <<>>
                  THEN HttpUrlStr(body[r].company_linkedin) ELSE <<>>)]
  /\ full_response' = [full_response EXCEPT ![r] = <<>>]
  /\ pc' = [pc EXCEPT ![r] = "streaming"]
  /\ UNCHANGED <<entry, body, model_text, stream, delivered, result, exc, response,
                 parse_calls, failed_file>>
  /\ UNCHANGED gen_vars

\* one iteration of the for loop over the stream
StreamChunk(r) ==
  /\ pc[r] = "streaming" /\ loop = r /\ entry[r] = "analyze_company"
  /\ \E c \in NextChunks(stream[r]) :
       /\ CanYield(r, c)
       /\ stream' = [stream EXCEPT ![r] = From(@, Len(c.text))]
       /\ full_response' = [full_response EXCEPT ![r] = CollectChunk(@, c)]
  /\ delivered' = [delivered EXCEPT ![r] = @ + 1]
  /\ UNCHANGED <<entry, body, model_text, prompt, pc, result, exc, response, clients,
                 stream_calls, parse_calls, failed_file, loop>>
  /\ UNCHANGED gen_vars

\* variant: the loop can be left before the stream is exhausted
StreamEnd_Early(r) ==
  /\ pc[r] = "streaming" /\ loop = r /\ entry[r] = "analyze_company"
  /\ pc' = [pc EXCEPT ![r] = "collected"]
  /\ UNCHANGED <<entry, body, model_text, prompt, stream, delivered, full_response, result, exc,
                 response, clients, stream_calls, parse_calls, failed_file, loop>>
  /\ UNCHANGED gen_vars

\* the stream is exhausted: the for loop ends
StreamEnd(r) ==
  /\ pc[r] = "streaming" /\ loop = r /\ entry[r] = "analyze_company"
  /\ stream[r] = <<>>
  /\ pc' = [pc EXCEPT ![r] = "collected"]
  /\ UNCHANGED <<entry, body, model_text, prompt, stream, delivered, full_response, result, exc,
                 response, clients, stream_calls, parse_calls, failed_file, loop>>
  /\ UNCHANGED gen_vars

\* variant: the first failure of the stream is answered by a second call
StreamError_Retry(r) ==
  /\ pc[r] = "streaming" /\ loop = r /\ entry[r] = "analyze_company"
  /\ IF stream_calls[r] < 2
     THEN /\ pc' = [pc EXCEPT ![r] = "validated"]
          /\ loop' = "free"
          /\ stream' = [stream EXCEPT ![r] = model_text[r]]
          /\ delivered' = [delivered EXCEPT ![r] = 0]
          /\ UNCHANGED exc
     ELSE /\ exc' = [exc EXCEPT ![r] = PyException(<<"stream error">>)]
          /\ pc' = [pc EXCEPT ![r] = "gsi_raised"]
          /\ UNCHANGED <<loop, stream, delivered>>
  /\ UNCHANGED <<entry, body, model_text, prompt, full_response, result,
                 response, clients, stream_calls, parse_calls, failed_file>>
  /\ UNCHANGED gen_vars

\* the underlying call raises (transport, authentication): the outer
\* except of generate_sales_intelligence logs and re-raises
StreamError(r) ==
  /\ pc[r] = "streaming" /\ loop = r /\ entry[r] = "analyze_company"
  /\ exc' = [exc EXCEPT ![r] = PyException(<<"stream error">>)]
  /\ pc' = [pc EXCEPT ![r] = "gsi_raised"]
  /\ UNCHANGED <<entry, body, model_text, prompt, stream, delivered, full_response, result,
                 response, clients, stream_calls, parse_calls, failed_file, loop>>
  /\ UNCHANGED gen_vars

\* variant: the test is missing
IsEmptyResponse_Never(full) == FALSE

\* the test of "if not full_response or len(full_response.strip()) == 0"
IsEmptyResponse(full) == full = <<>> \/ Len(Strip(full)) = 0

\* the check made on the collected response before it is parsed
CheckEmpty(r) ==
  /\ pc[r] = "collected" /\ loop = r
  /\ IF IsEmptyResponse(full_response[r])
     THEN /\ exc' = [exc EXCEPT ![r] =
                PyException(<<"Empty response received from AI model">>)]
          /\ pc' = [pc EXCEPT ![r] = "gsi_raised"]
     ELSE /\ pc' = [pc EXCEPT ![r] = "parsing"]
          /\ UNCHANGED exc
  /\ UNCHANGED <<entry, body, model_text, prompt, stream, delivered, full_response, result,
                 response, clients, stream_calls, parse_calls, failed_file, loop>>
  /\ UNCHANGED gen_vars

\* variant: the response is written to the debug file before it is parsed
ParseJson_AlwaysWrites(r) ==
  /\ pc[r] = "parsing" /\ loop = r
  /\ parse_calls' = [parse_calls EXCEPT ![r] = @ + 1]
  /\ failed_file' = <<TRUE, full_response[r]>>
  /\ LET cleaned == CleanResponse(full_response[r])
         j == JsonLoads(cleaned)
     IN IF j.ok
        THEN /\ result' = [result EXCEPT ![r] = [kind |-> "json", v |-> j.val]]
             /\ pc' = [pc EXCEPT ![r] = "gsi_returned"]
             /\ UNCHANGED exc
        ELSE /\ pc' = [pc EXCEPT ![r] = "gsi_raised"]
             /\ UNCHANGED result
             /\ exc' = [exc EXCEPT ![r] = PyException(
                  <<"Invalid JSON response from AI: ">> \o DecodeErrorStr(cleaned, j))]
  /\ UNCHANGED <<entry, body, model_text, prompt, stream, delivered, full_response, response,
                 clients, stream_calls, loop>>
  /\ UNCHANGED gen_vars

\* the inner try: clean the response, json.loads it and return the value;
\* on JSONDecodeError write the response to /tmp/failed_response.txt and
\* raise (the open() itself may fail, and then its OSError propagates)
ParseJson(r) ==
  /\ pc[r] = "parsing" /\ loop = r
  /\ parse_calls' = [parse_calls EXCEPT ![r] = @ + 1]
  /\ LET cleaned == CleanResponse(full_response[r])
         j == JsonLoads(cleaned)
     IN IF j.ok
        THEN /\ result' = [result EXCEPT ![r] = [kind |-> "json", v |-> j.val]]
             /\ pc' = [pc EXCEPT ![r] = "gsi_returned"]
             /\ UNCHANGED <<exc, failed_file>>
        ELSE /\ pc' = [pc EXCEPT ![r] = "gsi_raised"]
             /\ UNCHANGED result
             /\ \/ /\ failed_file' = <<TRUE, full_response[r]>>
                   /\ exc' = [exc EXCEPT ![r] = PyException(
                        <<"Invalid JSON response from AI: ">> \o DecodeErrorStr(cleaned, j))]
                \/ /\ UNCHANGED failed_file
                   /\ exc' = [exc EXCEPT ![r] =
                        [type |-> "OSError", str |-> <<"[Errno 13] Permission denied: '/tmp/failed_response.txt'">>]]
  /\ UNCHANGED <<entry, body, model_text, prompt, stream, delivered, full_response, response,
                 clients, stream_calls, loop>>
  /\ UNCHANGED gen_vars

\* CompanyAnalysisResponse declares data: Optional[dict]: a dict and None
\* (what json.loads returns for null) pass validation
IsDictOrNone(v) == v.t \in {"dict", "NoneType"}

\* variant: the response carries a metadata object next to the report
RespondSuccess_WithMetadata(r) ==
  /\ pc[r] = "gsi_returned" /\ loop = r
  /\ IF IsDictOrNone(result[r].v)
     THEN response' = [response EXCEPT ![r] =
            [status |-> 200,
             body |-> [status |-> "success", data |-> result[r].v,
                       metadata |-> [companyWebsite |-> HttpUrlStr(body[r].company_website),
                                     analysisDate |-> "current_date",
                                     generatedAt |-> "now", model |-> "model"]]]]
     ELSE response' = [response EXCEPT ![r] =
            [status |-> 500,
             detail |-> <<"Analysis failed: ", "1 validation error for CompanyAnalysisResponse">>]]
  /\ pc' = [pc EXCEPT ![r] = "responded"]
  /\ loop' = "free"
  /\ UNCHANGED <<entry, body, model_text, prompt, stream, delivered, full_response, result, exc,
                 clients, stream_calls, parse_calls, failed_file>>
  /\ UNCHANGED gen_vars

\* analyze_company after generate_sales_intelligence returned: build the
\* response model; its validation error is caught by the except below it
RespondSuccess(r) ==
  /\ pc[r] = "gsi_returned" /\ loop = r
  /\ IF IsDictOrNone(result[r].v)
     THEN response' = [response EXCEPT ![r] =
            [status |-> 200,
             body |-> [status |-> "success", data |-> result[r].v,
                       error |-> None, tokens_used |-> None]]]
     ELSE response' = [response EXCEPT ![r] =
            [status |-> 500,
             detail |-> <<"Analysis failed: ", "1 validation error for CompanyAnalysisResponse">>]]
  /\ pc' = [pc EXCEPT ![r] = "responded"]
  /\ loop' = "free"
  /\ UNCHANGED <<entry, body, model_text, prompt, stream, delivered, full_response, result, exc,
                 clients, stream_calls, parse_calls, failed_file>>
  /\ UNCHANGED gen_vars

\* variant: the exception leaves the handler and no response is built
RespondFailure_Escapes(r) ==
  /\ pc[r] = "gsi_raised" /\ loop = r
  /\ pc' = [pc EXCEPT ![r] = "escaped"]
  /\ loop' = "free"
  /\ UNCHANGED <<entry, body, model_text, prompt, stream, delivered, full_response, result, exc,
                 response, clients, stream_calls, parse_calls, failed_file>>
  /\ UNCHANGED gen_vars

\* variant: the failure is reported in a 200 response with status "error"
RespondFailure_As200(r) ==
  /\ pc[r] = "gsi_raised" /\ loop = r
  /\ response' = [response EXCEPT ![r] =
       [status |-> 200,
        body |-> [status |-> "error", data |-> None,
                  error |-> exc[r].str, tokens_used |-> None]]]
  /\ pc' = [pc EXCEPT ![r] = "responded"]
  /\ loop' = "free"
  /\ UNCHANGED <<entry, body, model_text, prompt, stream, delivered, full_response, result, exc,
                 clients, stream_calls, parse_calls, failed_file>>
  /\ UNCHANGED gen_vars

\* variant: the exception text is dropped from the detail
RespondFailure_NoText(r) ==
  /\ pc[r] = "gsi_raised" /\ loop = r
  /\ response' = [response EXCEPT ![r] = [status |-> 500, detail |-> <<"Analysis failed: ">>]]
  /\ pc' = [pc EXCEPT ![r] = "responded"]
  /\ loop' = "free"
  /\ UNCHANGED <<entry, body, model_text, prompt, stream, delivered, full_response, result, exc,
                 clients, stream_calls, parse_calls, failed_file>>
  /\ UNCHANGED gen_vars

\* analyze_company's except: HTTPException(500, "Analysis failed: " + str(e))
RespondFailure(r) ==
  /\ pc[r] = "gsi_raised" /\ loop = r
  /\ response' = [response EXCEPT ![r] =
       [status |-> 500, detail |-> <<"Analysis failed: ">> \o exc[r].str]]
  /\ pc' = [pc EXCEPT ![r] = "responded"]
  /\ loop' = "free"
  /\ UNCHANGED <<entry, body, model_text, prompt, stream, delivered, full_response, result, exc,
                 clients, stream_calls, parse_calls, failed_file>>
  /\ UNCHANGED gen_vars

(* ------------- SalesIntelligenceGenerator.generate_report --------------- *)
\* SalesIntelligenceGenerator.__init__: resolve project_id and location,
\* raise ValueError when there is no project id, else create the client
GeneratorInit(r) ==
  /\ pc[r] = "constructing" /\ loop = "free"
  /\ LET project_id == ResolveProjectId(init_args[r].project_id, environ)
         location == ResolveLocation(init_args[r].location, environ)
     IN IF ~Truthy(project_id)
        THEN /\ exc' = [exc EXCEPT ![r] =
                  [type |-> "ValueError",
                   str |-> <<"GOOGLE_CLOUD_PROJECT environment variable must be set ",
                             "or project_id must be provided">>]]
             /\ pc' = [pc EXCEPT ![r] = "init_raised"]
             /\ UNCHANGED <<generator, clients>>
        ELSE /\ generator' = [generator EXCEPT ![r] =
                  [project_id |-> project_id, location |-> location, model |-> DefaultModel,
                   client |-> [vertexai |-> TRUE, project |-> project_id,
                               location |-> location]]]
             /\ clients' = [clients EXCEPT ![r] = @ + 1]
             /\ pc' = [pc EXCEPT ![r] = "called"]
             /\ UNCHANGED exc
  /\ UNCHANGED <<entry, body, model_text, prompt, stream, delivered, full_response, result,
                 response, stream_calls, parse_calls, failed_file, loop, environ, init_args>>

\* generate_report builds the contents and the configuration and opens the
\* stream on the client the generator was constructed with
ReportOpenStream(r) ==
  /\ pc[r] = "called" /\ loop = "free"
  /\ loop' = r
  /\ stream_calls' = [stream_calls EXCEPT ![r] = @ + 1]
  /\ full_response' = [full_response EXCEPT ![r] = <<>>]
  /\ pc' = [pc EXCEPT ![r] = "streaming"]
  /\ UNCHANGED <<entry, body, model_text, prompt, stream, delivered, result, exc, response,
                 clients, parse_calls, failed_file>>
  /\ UNCHANGED gen_vars

ReportChunk(r) ==
  /\ pc[r] = "streaming" /\ loop = r /\ entry[r] = "generate_report"
  /\ \E c \in NextChunks(stream[r]) :
       /\ CanYield(r, c)
       /\ stream' = [stream EXCEPT ![r] = From(@, Len(c.text))]
       /\ full_response' = [full_response EXCEPT ![r] = ReportCollectChunk(@, c)]
  /\ delivered' = [delivered EXCEPT ![r] = @ + 1]
  /\ UNCHANGED <<entry, body, model_text, prompt, pc, result, exc, response, clients,
                 stream_calls, parse_calls, failed_file, loop>>
  /\ UNCHANGED gen_vars

\* variant: the length test is missing
IsShortResponse_OnlyEmpty(text) == text = <<>>

\* the test of "if not response_text or len(response_text) < 10"
IsShortResponse(text) == text = <<>> \/ Len(text) < 10

\* the stream is exhausted: check the length, then return the text or raise
ReportFinish(r) ==
  /\ pc[r] = "streaming" /\ loop = r /\ entry[r] = "generate_report"
  /\ stream[r] = <<>>
  /\ IF IsShortResponse(full_response[r])
     THEN /\ exc' = [exc EXCEPT ![r] =
                PyException(<<"Vertex AI returned an empty or incomplete response">>)]
          /\ pc' = [pc EXCEPT ![r] = "raised"]
          /\ UNCHANGED result
     ELSE /\ result' = [result EXCEPT ![r] = [kind |-> "text", v |-> full_response[r]]]
          /\ pc' = [pc EXCEPT ![r] = "returned"]
          /\ UNCHANGED exc
  /\ loop' = "free"
  /\ UNCHANGED <<entry, body, model_text, prompt, stream, delivered, full_response, response,
                 clients, stream_calls, parse_calls, failed_file>>
  /\ UNCHANGED gen_vars

\* the underlying call raises: the except logs and re-raises
ReportStreamError(r) ==
  /\ pc[r] = "streaming" /\ loop = r /\ entry[r] = "generate_report"
  /\ exc' = [exc EXCEPT ![r] = PyException(<<"stream error">>)]
  /\ pc' = [pc EXCEPT ![r] = "raised"]
  /\ loop' = "free"
  /\ UNCHANGED <<entry, body, model_text, prompt, stream, delivered, full_response, result,
                 response, clients, stream_calls, parse_calls, failed_file>>
  /\ UNCHANGED gen_vars

Next ==
  \E r \in Reqs :
    \/ Validate(r)
    \/ OpenStream(r)
    \/ StreamChunk(r)
    \/ StreamEnd(r)
    \/ StreamError(r)
    \/ CheckEmpty(r)
    \/ ParseJson(r)
    \/ RespondSuccess(r)
    \/ RespondFailure(r)
    \/ ReportOpenStream(r)
    \/ ReportChunk(r)
    \/ ReportFinish(r)
    \/ ReportStreamError(r)
    \/ GeneratorInit(r)

Spec == Init /\ [][Next]_vars

\* the steps of Next other than the parse
OtherStep ==
  \E r \in Reqs :
    \/ Validate(r) \/ OpenStream(r) \/ StreamChunk(r) \/ StreamEnd(r) \/ StreamError(r)
    \/ CheckEmpty(r) \/ RespondSuccess(r) \/ RespondFailure(r)
    \/ ReportOpenStream(r) \/ ReportChunk(r) \/ ReportFinish(r) \/ ReportStreamError(r)
    \/ GeneratorInit(r)

ParseStep == \E r \in Reqs : ParseJson(r)

\* ParseJson(r) can be taken exactly when r is about to parse
ParseReady == \E r \in Reqs : pc[r] = "parsing" /\ loop = r

\* every handler that can take a step eventually takes one: the event loop
\* runs what is ready and the stream is finite.  The second condition is
\* WF_vars(ParseStep) with ENABLED <<ParseStep>>_vars written as ParseReady.
FairSpec ==
  /\ InitFair /\ [][Next]_vars
  /\ WF_vars(OtherStep)
  /\ ([]<>(~ParseReady) \/ []<><<ParseStep>>_vars)

\* two requests in the process at once
SpecConc == InitConc /\ [][Next]_vars

\* InitFair in any environment, the generator constructed with any arguments
InitGen ==
  /\ \E e \in {"analyze_company", "generate_report"} :
       /\ entry = [r \in Reqs |-> IF r = "r1" THEN e ELSE "none"]
       /\ \E b \in (IF e = "analyze_company" THEN RequestBodies ELSE {NoBody}) :
            body = [r \in Reqs |-> IF r = "r1" THEN b ELSE NoBody]
       /\ pc = [r \in Reqs |-> IF r # "r1" THEN "idle"
                               ELSE IF e = "analyze_company" THEN "received" ELSE "constructing"]
  /\ \E t \in FairTexts :
       /\ model_text = [r \in Reqs |-> IF r = "r1" THEN t ELSE <<>>]
       /\ stream = model_text
  /\ prompt = [r \in Reqs |-> <<>>]
  /\ delivered = [r \in Reqs |-> 0]
  /\ full_response = [r \in Reqs |-> <<>>]
  /\ result = [r \in Reqs |-> NoResult]
  /\ exc = [r \in Reqs |-> NoExc]
  /\ response = [r \in Reqs |-> NoResponse]
  /\ clients = [r \in Reqs |-> 0]
  /\ stream_calls = [r \in Reqs |-> 0]
  /\ parse_calls = [r \in Reqs |-> 0]
  /\ failed_file = <<FALSE, <<>>>>
  /\ loop = "free"
  /\ environ \in Environs
  /\ \E a \in InitArgs : init_args = [r \in Reqs |-> IF r = "r1" THEN a ELSE NoArgs]
  /\ generator = [r \in Reqs |-> NoGenerator]

SpecGen == InitGen /\ [][Next]_vars

(* ------------------- notions the properties are about ------------------- *)
\* 0-based index of the first occurrence of p in s at or after from, or -1
Find(s, p, from) ==
  LET I == {i \in from..(Len(s) - Len(p)) : SubSeq(s, i + 1, i + Len(p)) = p} IN
  IF I = {} THEN -1 ELSE CHOOSE i \in I : \A k \in I : i <= k

Contains(s, p) == Find(s, p, 0) >= 0

\* the text between the first occurrence of `open` and the next fence
BlockAfter(s, open) ==
  LET a == Find(s, open, 0)
      b == IF a < 0 THEN -1 ELSE Find(s, Fence, a + Len(open))
  IN IF b < 0 THEN [found |-> FALSE, inner |-> <<>>]
     ELSE [found |-> TRUE, inner |-> SubSeq(s, a + Len(open) + 1, b)]

\* the JSON extraction step has run for r
Extracted(r) == parse_calls[r] > 0

\* ... and returned the value v
Returned(r, v) == result[r].kind = "json" /\ result[r].v = v

\* ... and raised instead of returning
ExtractFailed(r) == Extracted(r) /\ result[r].kind = "none"

\* the stream of r ran to its end (no exception out of the iteration)
StreamCompleted(r) ==
  /\ pc[r] \in {"collected", "parsing", "gsi_returned", "gsi_raised", "responded",
                "returned", "raised"}
  /\ exc[r].str # <<"stream error">>

(* ------------------------------- C1 ------------------------------------- *)
\* C1 as stated: when direct parsing fails and the output contains a json
\* fenced block anywhere (prose may precede it), the extractor returns the
\* value of the stripped text between the marker and the next fence.
C1_AsStated ==
  \A r \in Reqs :
    LET full == full_response[r]
        blk == BlockAfter(full, FenceJson)
    IN (Extracted(r) /\ ~JsonLoads(full).ok /\ blk.found /\ JsonLoads(Strip(blk.inner)).ok)
       => Returned(r, JsonLoads(Strip(blk.inner)).val)

\* C1 amended: the json marker counts only at the start of the stripped
\* output and the closing fence only at its end.  If the stripped output starts with the marker and what follows
\* ends with a fence, the extractor returns the value of the stripped text
\* between the two whenever that text is JSON; if the stripped output starts
\* with prose (a character that opens neither a fence nor a JSON value),
\* nothing is removed from its front and extraction fails; if text follows
\* the closing fence of a json block, that fence stays and extraction fails.
C1_PrefixOnly ==
  \A r \in Reqs :
    LET s == Strip(full_response[r])
        inner == Strip(DropLast(From(s, 7), 3))
    IN Extracted(r) =>
         /\ (StartsWith(s, FenceJson) /\ EndsWith(From(s, 7), Fence) /\ JsonLoads(inner).ok)
              => Returned(r, JsonLoads(inner).val)
         /\ (s # <<>> /\ Head(s) \notin {BT, DQ, "{", "[", "1", "n", "t"})
              => ExtractFailed(r)
         /\ (StartsWith(s, FenceJson) /\ ~EndsWith(s, Fence)
             /\ BlockAfter(s, FenceJson).found
             /\ JsonLoads(Strip(BlockAfter(s, FenceJson).inner)).ok)
              => ExtractFailed(r)

\* a response that opens with the json marker and closes with a fence was
\* extracted to its value
C1_Witness ==
  /\ full_response["r1"] = FenceJson \o <<"{", DQ, "a", DQ, ":", "1", "}">> \o Fence
  /\ Extracted("r1") /\ result["r1"].kind = "json" /\ result["r1"].v.t = "dict"

(* ------------------------------- C2 ------------------------------------- *)
\* q occurs in s as a contiguous run
IsInfix(q, s) == \E i \in 0..(Len(s) - Len(q)) : SubSeq(s, i + 1, i + Len(q)) = q

\* C2 as stated: when no extraction yields JSON, the error surfaced to the
\* caller contains a non-empty preview of the raw text (its first 200
\* characters).
C2_AsStated ==
  \A r \in Reqs :
    (ExtractFailed(r) /\ pc[r] = "responded")
      => /\ response[r].status = 500
         /\ Take(full_response[r], 200) # <<>>
         /\ IsInfix(Take(full_response[r], 200), response[r].detail)

\* C2 amended: when the cleaned output is not JSON the extractor raises and
\* the caller gets 500 whose detail is "Analysis failed: Invalid JSON
\* response from AI: " followed by the decoder's message and position (or
\* the OSError of the failed debug-file write); the raw text is not in it.
C2_DecoderMessageOnly ==
  \A r \in Reqs :
    LET cleaned == CleanResponse(full_response[r]) IN
    (ExtractFailed(r) /\ pc[r] = "responded")
      => /\ ~JsonLoads(cleaned).ok
         /\ response[r].status = 500
         /\ \/ response[r].detail =
                 <<"Analysis failed: ", "Invalid JSON response from AI: ">>
                   \o DecodeErrorStr(cleaned, JsonLoads(cleaned))
            \/ response[r].detail =
                 <<"Analysis failed: ", "[Errno 13] Permission denied: '/tmp/failed_response.txt'">>

\* "not json" was collected, extraction failed and the 500 went out
C2_Witness ==
  /\ full_response["r1"] = <<"n", "o", "t", SP, "j", "s", "o", "n">>
  /\ ExtractFailed("r1") /\ pc["r1"] = "responded"
  /\ response["r1"].status = 500
  /\ response["r1"].detail[2] = "Invalid JSON response from AI: "

(* ------------------------------- C3 ------------------------------------- *)
\* C3: for every collected output that is a JSON document, possibly with
\* whitespace around it, the output is not refused as empty and the
\* extraction step returns exactly its value.
C3_IdempotentOnJson ==
  \A r \in Reqs :
    (entry[r] = "analyze_company" /\ StreamCompleted(r)
     /\ pc[r] \notin {"collected", "parsing"} /\ JsonLoads(full_response[r]).ok)
      => Extracted(r) /\ Returned(r, JsonLoads(full_response[r]).val)

\* a JSON document with whitespace around it went through the extractor
C3_Witness ==
  /\ full_response["r1"] = <<NL, "[", "1", "]", NL>>
  /\ Extracted("r1") /\ result["r1"].kind = "json"

(* ------------------------------- C4 ------------------------------------- *)
\* C4: the json marker, a newline, a JSON document, a newline and a closing
\* fence make the extractor return the document's value.
C4_JsonFenced ==
  \A r \in Reqs :
    LET full == full_response[r]
        doc == SubSeq(full, 9, Len(full) - 4)
    IN (Extracted(r) /\ Len(full) >= 12
        /\ StartsWith(full, FenceJson \o <<NL>>) /\ EndsWith(full, <<NL>> \o Fence)
        /\ JsonLoads(doc).ok)
       => Returned(r, JsonLoads(doc).val)

\* the fenced {"a":1} was extracted to the object with a = 1
C4_Witness ==
  /\ full_response["r1"] =
       FenceJson \o <<NL, "{", DQ, "a", DQ, ":", "1", "}", NL>> \o Fence
  /\ Extracted("r1")
  /\ result["r1"].kind = "json"
  /\ result["r1"].v.t = "dict" /\ result["r1"].v.v[<<"a">>] = [t |-> "int", v |-> 1]

(* ------------------------------- C5 ------------------------------------- *)
\* C5: a fence without language tag, a newline, a JSON document, a newline
\* and a closing fence make the extractor return the document's value.
C5_GenericFenced ==
  \A r \in Reqs :
    LET full == full_response[r]
        doc == SubSeq(full, 5, Len(full) - 4)
    IN (Extracted(r) /\ Len(full) >= 8
        /\ StartsWith(full, Fence \o <<NL>>) /\ EndsWith(full, <<NL>> \o Fence)
        /\ JsonLoads(doc).ok)
       => Returned(r, JsonLoads(doc).val)

\* the untagged fenced {"a":1} was extracted to the object with a = 1
C5_Witness ==
  /\ full_response["r1"] =
       Fence \o <<NL, "{", DQ, "a", DQ, ":", "1", "}", NL>> \o Fence
  /\ Extracted("r1")
  /\ result["r1"].kind = "json"
  /\ result["r1"].v.t = "dict" /\ result["r1"].v.v[<<"a">>] = [t |-> "int", v |-> 1]

(* ------------------------------- C6 ------------------------------------- *)
\* C6 as stated: when direct parsing and the json-marker strategy fail and
\* the output contains a generic fenced block, also one followed by further
\* text, the extractor returns the value of the text between the first pair
\* of fences.
C6_AsStated ==
  \A r \in Reqs :
    LET full == full_response[r]
        jb == BlockAfter(full, FenceJson)
        gb == BlockAfter(full, Fence)
    IN (Extracted(r) /\ ~JsonLoads(full).ok
        /\ ~(jb.found /\ JsonLoads(Strip(jb.inner)).ok)
        /\ gb.found /\ JsonLoads(gb.inner).ok)
       => Returned(r, JsonLoads(gb.inner).val)

\* C6 amended: a generic fence counts only at the two ends of the stripped
\* output.  If the stripped output starts with a fence without the json tag
\* and what follows ends with a fence, the extractor returns the value of
\* the text between the two whenever that text is JSON; if further text
\* follows the closing fence of the first pair, extraction fails.
C6_EndsOnly ==
  \A r \in Reqs :
    LET s == Strip(full_response[r])
        inner == Strip(DropLast(From(s, 3), 3))
        gb == BlockAfter(s, Fence)
    IN Extracted(r) =>
         /\ (StartsWith(s, Fence) /\ ~StartsWith(s, FenceJson)
             /\ EndsWith(From(s, 3), Fence) /\ JsonLoads(inner).ok)
              => Returned(r, JsonLoads(inner).val)
         /\ (StartsWith(s, Fence) /\ ~StartsWith(s, FenceJson) /\ ~EndsWith(s, Fence)
             /\ gb.found /\ JsonLoads(gb.inner).ok)
              => ExtractFailed(r)

\* a generic fenced block that opens and closes the output was extracted
C6_Witness ==
  /\ full_response["r1"] = Fence \o <<"[", "1", "]">> \o Fence
  /\ Extracted("r1") /\ result["r1"].kind = "json" /\ result["r1"].v.t = "list"

(* ------------------------------- C7 ------------------------------------- *)
\* what follows the opening marker of an output that starts with one
AfterMarker(s) == IF StartsWith(s, FenceJson) THEN From(s, 7) ELSE From(s, 3)

\* the output starts with a fence marker and has no closing fence
Unclosed(full) == StartsWith(full, Fence) /\ ~Contains(AfterMarker(Strip(full)), Fence)

\* C7 as stated: an output that starts with a fence marker and has no
\* closing fence is never a successfully extracted fenced block: it ends in
\* the parse failure.
C7_AsStated ==
  \A r \in Reqs :
    (Extracted(r) /\ Unclosed(full_response[r])) => ExtractFailed(r)

\* C7 amended: an output that starts with a fence marker and has no closing
\* fence does not break the extractor: the marker is removed and the rest is
\* parsed, so the extractor returns the value of the rest when the rest is
\* JSON and raises the parse failure otherwise, and the request is answered
\* with 200 or 500.
C7_UnclosedIsParsed ==
  \A r \in Reqs :
    LET rest == Strip(AfterMarker(Strip(full_response[r]))) IN
    (Extracted(r) /\ Unclosed(full_response[r]))
      => /\ JsonLoads(rest).ok => Returned(r, JsonLoads(rest).val)
         /\ ~JsonLoads(rest).ok => ExtractFailed(r) /\ exc[r].type # "none"
         /\ pc[r] \in {"gsi_returned", "gsi_raised", "responded"}
         /\ pc[r] = "responded" => response[r].status \in {200, 500}

\* an unclosed json marker in front of {"a":1}: the object came back
C7_Witness ==
  /\ full_response["r1"] = FenceJson \o <<"{", DQ, "a", DQ, ":", "1", "}">>
  /\ Extracted("r1") /\ result["r1"].kind = "json"
  /\ pc["r1"] = "responded" /\ response["r1"].status = 200

(* ------------------------------- C8 ------------------------------------- *)
\* C8: a POST /api/v1/analyze whose body has no company website, or one
\* that is not a well-formed URL, never gets a model client or a streaming
\* call: it stays outside generate_sales_intelligence and, once answered,
\* is answered with a client error.
C8_RejectedBeforeModel ==
  \A r \in Reqs :
    (entry[r] = "analyze_company" /\ ~IsHttpUrl(body[r].company_website))
      => /\ pc[r] \in {"received", "rejected"}
         /\ clients[r] = 0 /\ stream_calls[r] = 0 /\ parse_calls[r] = 0
         /\ pc[r] = "rejected" => response[r].status \in 400..499

\* a request with a name but without a website was rejected
C8_Witness ==
  /\ entry["r1"] = "analyze_company"
  /\ body["r1"].company_name # "" /\ body["r1"].company_website = <<>>
  /\ pc["r1"] = "rejected" /\ response["r1"].status = 422

(* ------------------------------- C9 ------------------------------------- *)
EmptyFailures ==
  { PyException(<<"Empty response received from AI model">>),
    PyException(<<"Vertex AI returned an empty or incomplete response">>) }

\* C9: when the stream completes with nothing accumulated, the adapter
\* raises its "empty response" failure and json.loads is never called for
\* that request.
C9_EmptyBeforeExtraction ==
  \A r \in Reqs :
    (StreamCompleted(r) /\ full_response[r] = <<>>)
      => /\ parse_calls[r] = 0
         /\ pc[r] # "parsing" /\ result[r].kind = "none"
         /\ pc[r] # "collected" => exc[r] \in EmptyFailures

\* a stream that only had chunks without text ended and the request failed
C9_Witness ==
  /\ entry["r1"] = "analyze_company" /\ pc["r1"] = "responded"
  /\ delivered["r1"] > 0 /\ full_response["r1"] = <<>>
  /\ exc["r1"] = PyException(<<"Empty response received from AI model">>)
  /\ response["r1"].status = 500

(* ------------------------------- C10 ------------------------------------ *)
\* the adapter of r is past its check of the collected text
Checked(r) ==
  StreamCompleted(r) /\ pc[r] # "collected"

\* C10 as stated: in both adapters a completed stream whose text is empty
\* or shorter than the length threshold (10) ends in the "empty response"
\* failure.
C10_AsStated ==
  \A r \in Reqs :
    (Checked(r) /\ Len(full_response[r]) < 10) => exc[r] \in EmptyFailures

\* C10 amended: generate_report raises its "empty response" failure exactly
\* when the text is empty or shorter than 10 characters;
\* generate_sales_intelligence raises it exactly when the text is empty or
\* all whitespace, and hands any other text, however short, to json.loads.
C10_ThresholdOnlyInReport ==
  \A r \in Reqs :
    Checked(r) =>
      /\ entry[r] = "generate_report" =>
           /\ (exc[r] \in EmptyFailures) <=> (Len(full_response[r]) < 10)
           /\ Len(full_response[r]) >= 10 =>
                pc[r] = "returned" /\ result[r].kind = "text" /\ result[r].v = full_response[r]
      /\ entry[r] = "analyze_company" =>
           /\ (exc[r] \in EmptyFailures) <=> (Strip(full_response[r]) = <<>>)
           /\ (Strip(full_response[r]) # <<>> /\ pc[r] # "parsing") => parse_calls[r] = 1

\* generate_report refused a nine-character text
C10_Witness ==
  /\ entry["r1"] = "generate_report" /\ pc["r1"] = "raised"
  /\ Len(full_response["r1"]) = 9
  /\ exc["r1"] = PyException(<<"Vertex AI returned an empty or incomplete response">>)

(* ------------------------------- C11 ------------------------------------ *)
\* C11: with two requests in the process, the string each request parses
\* (or, in generate_report, returns) is exactly the text of its own stream,
\* in order, whatever the other request streamed, and what it gets back is
\* what that text decodes to.
C11_OwnBuffer ==
  \A r \in Reqs :
    /\ Extracted(r) =>
         /\ full_response[r] = model_text[r]
         /\ LET j == JsonLoads(CleanResponse(model_text[r])) IN
            IF j.ok THEN Returned(r, j.val) ELSE ExtractFailed(r)
    /\ pc[r] = "returned" => result[r].v = model_text[r]

\* both requests were parsed, each on a different text
C11_Witness ==
  /\ Extracted("r1") /\ Extracted("r2")
  /\ model_text["r1"] # model_text["r2"]
  /\ pc["r1"] = "responded" /\ pc["r2"] = "responded"

(* ------------------------------- C12 ------------------------------------ *)
\* the step that starts the handling of q, or moves it on, can be taken
CanProceed(q) == ENABLED (Validate(q) \/ OpenStream(q) \/ ReportOpenStream(q))

\* C12: while one request is waiting on its stream, another request of the
\* same process that has not started yet can start and make progress.
C12_AsStated ==
  \A r, q \in Reqs :
    (r # q /\ pc[r] = "streaming" /\ pc[q] \in {"received", "validated", "called"})
      => CanProceed(q)

(* ------------------------------- C13 ------------------------------------ *)
\* an exception is propagating, or has been answered, for r
Failed(r) == exc[r].type # "none"

\* C13: a request opens at most one streaming call and parses at most once,
\* and once it has failed it stays failed: no further call, no further
\* parse, no further chunk is taken for it.
C13_NoRetry ==
  /\ [](\A r \in Reqs : stream_calls[r] <= 1 /\ parse_calls[r] <= 1)
  /\ [][\A r \in Reqs :
          Failed(r) =>
            /\ exc'[r] = exc[r]
            /\ pc'[r] \in {"gsi_raised", "responded", "raised"}
            /\ stream_calls'[r] = stream_calls[r]
            /\ parse_calls'[r] = parse_calls[r]
            /\ full_response'[r] = full_response[r]
            /\ stream'[r] = stream[r]]_vars

\* a stream that raised after one call was answered with 500
C13_Witness ==
  /\ pc["r1"] = "responded" /\ exc["r1"] = PyException(<<"stream error">>)
  /\ stream["r1"] # <<>>
  /\ stream_calls["r1"] = 1 /\ parse_calls["r1"] = 0
  /\ response["r1"].status = 500

(* ------------------------------- C14 ------------------------------------ *)
\* C14: a request whose model call or JSON extraction failed is answered
\* with 500 and a detail that starts "Analysis failed: ", never with 2xx or
\* 4xx; a request with a malformed body is answered with 4xx, never with
\* 500; so 500 is only ever sent for a well-formed request.
C14_StatusByFailureClass ==
  \A r \in Reqs :
    entry[r] = "analyze_company" =>
      /\ (pc[r] = "responded" /\ Failed(r)) =>
           /\ response[r].status = 500
           /\ Len(response[r].detail) >= 2
           /\ response[r].detail = <<"Analysis failed: ">> \o exc[r].str
      /\ response[r].status \in 200..299 => ~Failed(r)
      /\ pc[r] = "rejected" => response[r].status \in 400..499
      /\ ~ValidRequest(body[r]) => response[r].status \in {0} \cup 400..499
      /\ response[r].status \in 400..499 => ~ValidRequest(body[r])

\* the debug file could not be written and the request still ended as 500
C14_Witness ==
  /\ pc["r1"] = "responded" /\ exc["r1"].type = "OSError"
  /\ response["r1"].status = 500

(* ------------------------------- C15 ------------------------------------ *)
\* C15 as stated: handling a request leaves no persisted state behind, on
\* any path.
C15_AsStated == failed_file = <<FALSE, <<>>>>

\* r's extraction raised the parse failure (its debug file was written)
ParseFailed(r) == ExtractFailed(r) /\ exc[r].type = "Exception"

\* C15 amended: the only state a request leaves behind is the debug file
\* /tmp/failed_response.txt.  It is written on the parse-failure path and
\* on no other, it then holds the whole raw output of the request that
\* failed last, and a later failing request overwrites it.
C15_OnlyDebugFile ==
  /\ []((failed_file[1] = TRUE) <=> (\E r \in Reqs : ParseFailed(r)))
  /\ [](failed_file[1] = TRUE =>
          \E r \in Reqs : ParseFailed(r) /\ failed_file[2] = full_response[r])
  /\ [][failed_file' # failed_file =>
          \E r \in Reqs : /\ pc[r] = "parsing" /\ pc'[r] = "gsi_raised"
                          /\ failed_file' = <<TRUE, full_response[r]>>]_vars

\* two requests failed to parse; the file holds the raw output of r2, which
\* replaced that of r1
C15_Witness ==
  /\ ParseFailed("r1") /\ ParseFailed("r2")
  /\ full_response["r1"] # full_response["r2"]
  /\ failed_file = <<TRUE, full_response["r2"]>>

(* ------------------------------- C16 ------------------------------------ *)
\* C16: the buffer always holds exactly what the stream has delivered, in
\* order: buffer followed by what is still to come is the streamed text;
\* after the stream completed the buffer is the whole text; a chunk that
\* carries no text leaves the buffer as it was.
C16_InOrder ==
  /\ [](\A r \in Reqs :
          /\ pc[r] \notin {"received", "validated", "called", "rejected", "idle"}
               => full_response[r] \o stream[r] = model_text[r]
          /\ StreamCompleted(r) => full_response[r] = model_text[r])
  /\ [][\A r \in Reqs :
          (delivered'[r] = delivered[r] + 1 /\ stream'[r] = stream[r])
            => full_response'[r] = full_response[r]]_vars

\* the object text arrived in three chunks and was collected whole
C16_Witness ==
  /\ pc["r1"] = "collected" /\ delivered["r1"] = 3
  /\ model_text["r1"] = <<"{", DQ, "a", DQ, ":", "1", "}">>
  /\ full_response["r1"] = model_text["r1"]

(* ------------------------------- C17 ------------------------------------ *)
\* C17 as stated: no response is produced, and no emptiness check or parse
\* runs, while the stream still has fragments to deliver.
C17_AsStated ==
  \A r \in Reqs :
    (pc[r] \in {"collected", "parsing", "gsi_returned", "responded"} \/ Extracted(r))
      => stream[r] = <<>>

\* C17 amended: the emptiness check, the parse and every 200 come after the
\* stream delivered its last fragment; the one response produced while
\* fragments are outstanding is the 500 for an exception raised by the
\* stream itself, and then the partial buffer is neither checked nor parsed.
C17_CompletionOrStreamError ==
  \A r \in Reqs :
    entry[r] = "analyze_company" =>
      /\ (pc[r] \in {"collected", "parsing", "gsi_returned"} \/ Extracted(r)
          \/ exc[r] \in EmptyFailures \/ response[r].status = 200)
           => stream[r] = <<>> /\ full_response[r] = model_text[r]
      /\ (pc[r] = "responded" /\ stream[r] # <<>>)
           => /\ exc[r] = PyException(<<"stream error">>)
              /\ response[r].status = 500
              /\ parse_calls[r] = 0

\* a stream of several chunks ran to its end before the 200 was built
C17_Witness ==
  /\ pc["r1"] = "responded" /\ response["r1"].status = 200
  /\ delivered["r1"] >= 2 /\ stream["r1"] = <<>>
  /\ full_response["r1"] = model_text["r1"]

C19_AsStated ==
  \A r \in Reqs :
    (entry[r] = "analyze_company" /\ response[r].status = 200) =>
      /\ response[r].body.status = "success"
      /\ response[r].body.data = result[r].v
      /\ "metadata" \in DOMAIN response[r].body
      /\ {"companyWebsite", "analysisDate", "generatedAt", "model"}
           \subseteq DOMAIN response[r].body.metadata

\* C19 amended: a successful response is a 200 whose body has exactly the
\* fields status, data, error and tokens_used: status is "success", data is
\* the object parsed from the request's output (null when that output is the
\* JSON literal null), error and tokens_used are null.  There is no metadata
\* object.
C19_NoMetadata ==
  \A r \in Reqs :
    (entry[r] = "analyze_company" /\ response[r].status = 200) =>
      /\ DOMAIN response[r].body = {"status", "data", "error", "tokens_used"}
      /\ response[r].body.status = "success"
      /\ result[r].kind = "json"
      /\ response[r].body.data = result[r].v
      /\ response[r].body.data.t \in {"dict", "NoneType"}
      /\ response[r].body.data = JsonLoads(CleanResponse(full_response[r])).val
      /\ response[r].body.error = None
      /\ response[r].body.tokens_used = None

\* the fenced empty object was parsed and sent as the data of a 200
C19_Witness ==
  /\ pc["r1"] = "responded" /\ response["r1"].status = 200
  /\ StartsWith(Strip(full_response["r1"]), FenceJson)
  /\ response["r1"].body.data = [t |-> "dict", v |-> EmptyDict]

(* ------------------------------- C20 ------------------------------------ *)
\* the two outcomes of a validated request
SuccessOutcome(r) ==
  /\ response[r].status = 200
  /\ response[r].body.status = "success"
  /\ JsonLoads(CleanResponse(model_text[r])).ok
  /\ response[r].body.data = JsonLoads(CleanResponse(model_text[r])).val
  /\ full_response[r] = model_text[r]

FailureOutcome(r) ==
  /\ response[r].status = 500
  /\ response[r].detail[1] = "Analysis failed: "

InHandler(r) ==
  pc[r] \in {"validated", "streaming", "collected", "parsing", "gsi_returned", "gsi_raised"}

\* C20: a validated request whose stream is finite ends, and ends with
\* exactly one outcome: the 200 with its own parsed output or the 500 whose
\* detail begins "Analysis failed: ".  Until then it has no response, the
\* response once built never changes, and the handler has no other exit.
C20_ExactlyOneOutcome ==
  /\ [](\A r \in Reqs :
          entry[r] = "analyze_company" =>
            /\ InHandler(r) => response[r] = NoResponse
            /\ pc[r] = "responded" =>
                 /\ SuccessOutcome(r) \/ FailureOutcome(r)
                 /\ ~(SuccessOutcome(r) /\ FailureOutcome(r))
            /\ pc[r] \in {"received", "rejected", "idle", "responded"} \/ InHandler(r))
  /\ [][\A r \in Reqs : response[r] # NoResponse => response'[r] = response[r]]_vars
  /\ \A r \in Reqs :
       (entry[r] = "analyze_company" /\ pc[r] = "validated")
         ~> (pc[r] = "responded" /\ response[r].status \in {200, 500})

\* the request went through the stream and one parse and ended as the 500
\* of a parse failure
C20_Witness ==
  /\ pc["r1"] = "responded" /\ FailureOutcome("r1")
  /\ ParseFailed("r1")
  /\ stream_calls["r1"] = 1 /\ parse_calls["r1"] = 1 /\ loop = "free"

(* ------------------------------- C21 ------------------------------------ *)
\* r's output was parsed to a JSON value that is not an object
ParsedNonObject(r) == result[r].kind = "json" /\ result[r].v.t # "dict"

\* C21 as stated: when the output parses to a value that is not an object
\* (array, string, number, boolean or null) the request does not end as a
\* 200 but as the 500 "Analysis failed" error.
C21_AsStated ==
  \A r \in Reqs :
    (entry[r] = "analyze_company" /\ pc[r] = "responded" /\ ParsedNonObject(r)) =>
      /\ response[r].status = 500
      /\ response[r].detail[1] = "Analysis failed: "

(* ------------------------------- C22 ------------------------------------ *)
\* the generator of r has been constructed or its construction has failed
InitDone(r) == entry[r] = "generate_report" /\ pc[r] # "constructing"

\* C22: construction takes project_id from the argument, else from
\* GOOGLE_CLOUD_PROJECT, and location from the argument, else from
\* VERTEX_AI_LOCATION, else "global" (an argument that is None or empty
\* counts as not given).  When neither source has a project id it raises
\* ValueError with no client created, no generator is handed out and no
\* model call is ever made; otherwise exactly one client is created, for the
\* resolved project and location.
C22_Precedence ==
  \A r \in Reqs :
    LET a == init_args[r]
        envp == environ["GOOGLE_CLOUD_PROJECT"]
        envl == environ["VERTEX_AI_LOCATION"]
    IN /\ (entry[r] = "generate_report" /\ pc[r] = "constructing")
            => clients[r] = 0 /\ generator[r] = NoGenerator
       /\ InitDone(r) =>
            IF a.project_id \in {None, ""} /\ envp \in {None, ""}
            THEN /\ pc[r] = "init_raised"
                 /\ exc[r].type = "ValueError"
                 /\ clients[r] = 0
                 /\ generator[r] = NoGenerator
                 /\ stream_calls[r] = 0
            ELSE /\ pc[r] # "init_raised"
                 /\ clients[r] = 1
                 /\ a.project_id \notin {None, ""} => generator[r].project_id = a.project_id
                 /\ a.project_id \in {None, ""} => generator[r].project_id = envp
                 /\ a.location \notin {None, ""} => generator[r].location = a.location
                 /\ (a.location \in {None, ""} /\ envl # None) => generator[r].location = envl
                 /\ (a.location \in {None, ""} /\ envl = None) => generator[r].location = "global"
                 /\ generator[r].client = [vertexai |-> TRUE,
                                           project |-> generator[r].project_id,
                                           location |-> generator[r].location]
       /\ (entry[r] = "generate_report" /\ stream_calls[r] > 0) => generator[r].client.vertexai

\* both arguments given and both variables set: the arguments won and the
\* generator made its model call
C22_Witness ==
  /\ init_args["r1"] = [project_id |-> "arg-project", location |-> "us-central1"]
  /\ environ = [GOOGLE_CLOUD_PROJECT |-> "env-project", VERTEX_AI_LOCATION |-> "europe-west1"]
  /\ generator["r1"].client = [vertexai |-> TRUE, project |-> "arg-project",
                               location |-> "us-central1"]
  /\ stream_calls["r1"] = 1

====
